---- MODULE Spec2Model ----
(***************************************************************************)
(* A model of src/app.py, the Streamlit "Stock Event Impact Analyzer":     *)
(* one run of the script over a batch of uploaded CSV files and an         *)
(* optional event date.  analyze_single_file cleans a file into a frame of *)
(* (Date, Close, Pct_Change) rows; the loop then evaluates the event       *)
(* window and shows the two metrics.                                       *)
(*                                                                         *)
(* Values.  A float is a record [kind, n, d]: kind "num" is the rational   *)
(* n/d in lowest terms with d > 0; "nan" is NaN; "inf" is +/-infinity with *)
(* the sign in n; "none" is Python's None.  A timestamp is [nat, ord]: NaT *)
(* or the proleptic Gregorian ordinal of a calendar date (date.toordinal). *)
(* A cell text is a sequence of one-character strings; a Date text is      *)
(* [sep, a, b, c], the three number fields of the cell and the separator   *)
(* between them.                                                           *)
(***************************************************************************)
EXTENDS Integers, Sequences, FiniteSets, TLC

VARIABLES uploaded_files, event_date_input, pc, idx, df, valid_event,
          before, after, before_avg, after_avg, out

vars == <<uploaded_files, event_date_input, pc, idx, df, valid_event,
          before, after, before_avg, after_avg, out>>

(***************************************************************************)
(* Floats                                                                  *)
(***************************************************************************)
Abs(x) == IF x < 0 THEN -x ELSE x

Sign(x) == IF x < 0 THEN -1 ELSE IF x > 0 THEN 1 ELSE 0

RECURSIVE Gcd(_, _)
Gcd(a, b) == IF b = 0 THEN a ELSE Gcd(b, a % b)

None == [kind |-> "none", n |-> 0, d |-> 1]

NaN == [kind |-> "nan", n |-> 0, d |-> 1]

Inf(s) == [kind |-> "inf", n |-> s, d |-> 1]

\* the float n/d, d # 0, in lowest terms
Num(n, d) ==
    LET g == Gcd(Abs(n), Abs(d))
    IN  [kind |-> "num", n |-> Sign(d) * (n \div g), d |-> Abs(d) \div g]

IsNum(x) == x.kind = "num"

\* x + y in IEEE arithmetic
FAdd(x, y) ==
    IF x.kind = "nan" \/ y.kind = "nan" THEN NaN
    ELSE IF x.kind = "inf" /\ y.kind = "inf"
         THEN IF x.n = y.n THEN x ELSE NaN
    ELSE IF x.kind = "inf" THEN x
    ELSE IF y.kind = "inf" THEN y
    ELSE Num(x.n * y.d + y.n * x.d, x.d * y.d)

\* x * y in IEEE arithmetic
FMul(x, y) ==
    IF x.kind = "nan" \/ y.kind = "nan" THEN NaN
    ELSE IF x.kind = "inf" \/ y.kind = "inf"
         THEN IF Sign(x.n) * Sign(y.n) = 0 THEN NaN
              ELSE Inf(Sign(x.n) * Sign(y.n))
    ELSE Num(x.n * y.n, x.d * y.d)

\* x / y in IEEE arithmetic
FDiv(x, y) ==
    IF x.kind = "nan" \/ y.kind = "nan" THEN NaN
    ELSE IF x.kind = "inf"
         THEN IF y.kind = "inf" THEN NaN
              ELSE Inf(x.n * (IF y.n < 0 THEN -1 ELSE 1))
    ELSE IF y.kind = "inf" THEN Num(0, 1)
    ELSE IF y.n = 0
         THEN IF x.n = 0 THEN NaN ELSE Inf(Sign(x.n))
    ELSE Num(x.n * y.d, x.d * y.n)

(***************************************************************************)
(* Cell texts                                                              *)
(***************************************************************************)
Digits == <<"0", "1", "2", "3", "4", "5", "6", "7", "8", "9">>

IsDigit(c) == \E k \in 1..10 : Digits[k] = c

DigitVal(c) == (CHOOSE k \in 1..10 : Digits[k] = c) - 1

RECURSIVE Pow10(_)
Pow10(k) == IF k = 0 THEN 1 ELSE 10 * Pow10(k - 1)

\* the number a digit sequence writes
RECURSIVE DigitsVal(_)
DigitsVal(s) ==
    IF s = <<>> THEN 0
    ELSE 10 * DigitsVal(SubSeq(s, 1, Len(s) - 1)) + DigitVal(s[Len(s)])

\* .str.replace(",", "", regex=False)
str_replace(s) == SelectSeq(s, LAMBDA c : c # ",")

\* pd.to_numeric(errors='coerce') of a decimal numeral with an optional sign
to_numeric(s) ==
    LET neg   == s # <<>> /\ s[1] = "-"
        body  == IF neg THEN SubSeq(s, 2, Len(s)) ELSE s
        dots  == {k \in 1..Len(body) : body[k] = "."}
        digs  == SelectSeq(body, LAMBDA c : c # ".")
        frac  == IF dots = {} THEN 0
                 ELSE Len(body) - (CHOOSE k \in dots : TRUE)
    IN  IF /\ Cardinality(dots) <= 1
           /\ digs # <<>>
           /\ \A k \in 1..Len(digs) : IsDigit(digs[k])
        THEN Num((IF neg THEN -1 ELSE 1) * DigitsVal(digs), Pow10(frac))
        ELSE NaN

(***************************************************************************)
(* Dates                                                                   *)
(***************************************************************************)
NaT == [nat |-> TRUE, ord |-> 0]

Timestamp(o) == [nat |-> FALSE, ord |-> o]

IsLeap(y) == (y % 4 = 0 /\ y % 100 # 0) \/ y % 400 = 0

DaysInMonth(m, y) ==
    IF m = 2 THEN (IF IsLeap(y) THEN 29 ELSE 28)
    ELSE IF m \in {4, 6, 9, 11} THEN 30 ELSE 31

RECURSIVE DaysBeforeMonth(_, _)
DaysBeforeMonth(m, y) ==
    IF m = 1 THEN 0 ELSE DaysBeforeMonth(m - 1, y) + DaysInMonth(m - 1, y)

DaysBeforeYear(y) ==
    (y - 1) * 365 + ((y - 1) \div 4) - ((y - 1) \div 100) + ((y - 1) \div 400)

Ordinal(m, d, y) == DaysBeforeYear(y) + DaysBeforeMonth(m, y) + d

\* a cell "a/b/c" (or with another separator) of the Date column
DateText(sep, a, b, c) == [sep |-> sep, a |-> a, b |-> b, c |-> c]

\* strptime with the format "%m/%d/%Y"; a text that does not match is NaT
strptime_mdY(t) ==
    IF /\ t.sep = "/"
       /\ t.c \in 1..9999
       /\ t.a \in 1..12
       /\ t.b \in 1..DaysInMonth(t.a, t.c)
    THEN Timestamp(Ordinal(t.a, t.b, t.c))
    ELSE NaT

\* to_datetime reading the cell day first, as "%d/%m/%Y"
to_datetime_dayfirst(t) ==
    strptime_mdY(DateText(t.sep, t.b, t.a, t.c))

\* pd.to_datetime(format="%m/%d/%Y", errors='coerce') of one cell
to_datetime(t) == strptime_mdY(t)

\* comparisons of timestamps: any comparison with NaT is False
TsLt(x, y) == ~x.nat /\ ~y.nat /\ x.ord < y.ord

TsLe(x, y) == ~x.nat /\ ~y.nat /\ x.ord <= y.ord

TsGt(x, y) == TsLt(y, x)

TsGe(x, y) == TsLe(y, x)

\* ts + pd.Timedelta(days=k)
TsPlusDays(x, k) == IF x.nat THEN NaT ELSE Timestamp(x.ord + k)

(***************************************************************************)
(* analyze_single_file                                                     *)
(*                                                                         *)
(* An uploaded file is [name, readable, columns, rows]: rows is the table  *)
(* read_csv returns, each row a function from the file's columns to cell   *)
(* texts; readable is FALSE for an upload read_csv raises on.              *)
(***************************************************************************)
cols_to_fix == {"Open", "High", "Low", "Close", "Volume"}

\* lines 40-43: strip the commas of each numeric column present and parse it
fix_numeric(row) ==
    [c \in DOMAIN row |->
        IF c \in cols_to_fix THEN to_numeric(str_replace(row[c])) ELSE row[c]]

\* line 46: df["Date"] = pd.to_datetime(df["Date"], ...)
parse_dates(row) == [row EXCEPT !["Date"] = to_datetime(@)]

\* dropna followed by drop_duplicates("Date"): the first row of a date stays
dropna_dedup(rows) ==
    LET kept == SelectSeq(rows, LAMBDA r :
                    ~r["Date"].nat /\ r["Close"].kind # "nan")
        firsts == {i \in 1..Len(kept) :
                     \A j \in 1..(i - 1) : kept[j]["Date"] # kept[i]["Date"]}
        F[i \in 0..Len(kept)] ==
            IF i = 0 THEN <<>>
            ELSE IF i \in firsts THEN Append(F[i - 1], kept[i]) ELSE F[i - 1]
    IN  F[Len(kept)]

\* df.dropna(subset=["Date", "Close"])
dropna(rows) ==
    SelectSeq(rows, LAMBDA r : ~r["Date"].nat /\ r["Close"].kind # "nan")

RemoveAt(s, i) == SubSeq(s, 1, i - 1) \o SubSeq(s, i + 1, Len(s))

\* sort_values left out: the rows stay in file order
sort_values_none(rows) == {rows}

\* .sort_values("Date"): ascending, with the default kind="quicksort", which
\* is not stable: every ascending order of the rows is a possible result
RECURSIVE sort_values(_)
sort_values(rows) ==
    IF rows = <<>> THEN {<<>>}
    ELSE LET first == {i \in 1..Len(rows) :
                         \A j \in 1..Len(rows) :
                            rows[i]["Date"].ord <= rows[j]["Date"].ord}
         IN  UNION {{<<rows[i]>> \o t : t \in sort_values(RemoveAt(rows, i))} :
                    i \in first}

\* df["Close"].pct_change() * 100: Close / Close.shift(1) - 1, in percent
pct_change(rows) ==
    [i \in 1..Len(rows) |->
        ("Pct_Change" :>
            (IF i = 1 THEN NaN
             ELSE FMul(FAdd(FDiv(rows[i]["Close"], rows[i - 1]["Close"]),
                            Num(-1, 1)),
                       Num(100, 1))))
        @@ rows[i]]

\* the except branch returning an empty frame after the error is shown
Failed_returns_frame(file, reason) ==
    [none |-> FALSE, rows |-> <<>>,
     error |-> [shown |-> TRUE, file |-> file.name, reason |-> reason]]

\* the except branch: st.error naming the file, return None
Failed(file, reason) ==
    [none |-> TRUE, rows |-> <<>>,
     error |-> [shown |-> TRUE, file |-> file.name, reason |-> reason]]

\* return df
Frame(rows) ==
    [none |-> FALSE, rows |-> rows,
     error |-> [shown |-> FALSE, file |-> 0, reason |-> ""]]

\* analyze_single_file with Pct_Change computed on the rows as read, before
\* the invalid rows are dropped and the rest sorted
analyze_single_file_pct_first(file) ==
    IF ~file.readable THEN {Failed(file, "ParserError")}
    ELSE IF "Date" \notin file.columns THEN {Failed(file, "KeyError: 'Date'")}
    ELSE IF "Close" \notin file.columns
         THEN {Failed(file, "KeyError: ['Close']")}
    ELSE LET fixed  == [i \in 1..Len(file.rows) |-> fix_numeric(file.rows[i])]
             parsed == [i \in 1..Len(fixed) |-> parse_dates(fixed[i])]
         IN  {Frame(s) : s \in sort_values(dropna(pct_change(parsed)))}

\* the possible results of analyze_single_file(file, event_date)
analyze_single_file(file) ==
    IF ~file.readable THEN {Failed(file, "ParserError")}
    ELSE IF "Date" \notin file.columns THEN {Failed(file, "KeyError: 'Date'")}
    ELSE IF "Close" \notin file.columns
         THEN {Failed(file, "KeyError: ['Close']")}
    ELSE LET fixed  == [i \in 1..Len(file.rows) |-> fix_numeric(file.rows[i])]
             parsed == [i \in 1..Len(fixed) |-> parse_dates(fixed[i])]
         IN  {Frame(pct_change(s)) : s \in sort_values(dropna(parsed))}

(***************************************************************************)
(* The event analysis block and the metrics                                *)
(***************************************************************************)
WindowDays == 15

TailHead == 5

\* df["Date"].min(): NaT for an empty frame
DateMin(rows) ==
    IF rows = <<>> THEN NaT
    ELSE LET i == CHOOSE i \in 1..Len(rows) :
                     \A j \in 1..Len(rows) :
                        rows[i]["Date"].ord <= rows[j]["Date"].ord
         IN  rows[i]["Date"]

\* df["Date"].max(): NaT for an empty frame
DateMax(rows) ==
    IF rows = <<>> THEN NaT
    ELSE LET i == CHOOSE i \in 1..Len(rows) :
                     \A j \in 1..Len(rows) :
                        rows[i]["Date"].ord >= rows[j]["Date"].ord
         IN  rows[i]["Date"]

\* the range check with the two ends of the range excluded
out_of_range_exclusive(ts, rows) ==
    TsLe(ts, DateMin(rows)) \/ TsGe(ts, DateMax(rows))

\* line 77: event_ts < df["Date"].min() or event_ts > df["Date"].max()
out_of_range(ts, rows) ==
    TsLt(ts, DateMin(rows)) \/ TsGt(ts, DateMax(rows))

\* lines 82-83: the rows within 15 days of the event, both ends included
window(rows, ts) ==
    SelectSeq(rows, LAMBDA r :
        /\ TsGe(r["Date"], TsPlusDays(ts, -WindowDays))
        /\ TsLe(r["Date"], TsPlusDays(ts, WindowDays)))

\* .tail(n)
tail(s, n) == IF Len(s) <= n THEN s ELSE SubSeq(s, Len(s) - n + 1, Len(s))

\* .head(n)
head(s, n) == IF Len(s) <= n THEN s ELSE SubSeq(s, 1, n)

\* before with the event date's own row let in (<= for <)
before_rows_inclusive(rows, ts) ==
    tail(SelectSeq(window(rows, ts), LAMBDA r : TsLe(r["Date"], ts)), TailHead)

\* before taken with head(5): the earliest rows of the window, not the latest
before_rows_head(rows, ts) ==
    head(SelectSeq(window(rows, ts), LAMBDA r : TsLt(r["Date"], ts)), TailHead)

\* line 86: window[window["Date"] < event_ts].tail(5)
before_rows(rows, ts) ==
    tail(SelectSeq(window(rows, ts), LAMBDA r : TsLt(r["Date"], ts)), TailHead)

\* line 87: window[window["Date"] > event_ts].head(5)
after_rows(rows, ts) ==
    head(SelectSeq(window(rows, ts), LAMBDA r : TsGt(r["Date"], ts)), TailHead)

RECURSIVE FSum(_)
FSum(s) == IF s = <<>> THEN Num(0, 1) ELSE FAdd(s[1], FSum(Tail(s)))

\* rows["Pct_Change"].mean(): NaN entries are skipped; NaN when none is left
mean(rows) ==
    LET vals == [i \in 1..Len(rows) |-> rows[i]["Pct_Change"]]
        kept == SelectSeq(vals, LAMBDA v : v.kind # "nan")
    IN  IF kept = <<>> THEN NaN ELSE FDiv(FSum(kept), Num(Len(kept), 1))

\* lines 103-104: before_avg if before_avg is not None else 0.0
default_zero(avg) == IF avg # None THEN avg ELSE Num(0, 1)

\* f"{val:.2f}%": the value rounded half-even to hundredths, or nan / inf
format_2f(val) ==
    IF val.kind # "num"
    THEN [text |-> val.kind, neg |-> val.n < 0, cents |-> 0]
    ELSE LET a == Abs(val.n) * 100
             q == a \div val.d
             r == a % val.d
             c == IF 2 * r < val.d THEN q
                  ELSE IF 2 * r > val.d THEN q + 1
                  ELSE IF q % 2 = 0 THEN q ELSE q + 1
         IN  [text |-> "num", neg |-> val.n < 0, cents |-> c]

NoMetrics == [shown |-> FALSE, before |-> format_2f(Num(0, 1)),
              after |-> format_2f(Num(0, 1))]

\* df[["Date", "Close", "Pct_Change"]]
three_columns(rows) ==
    [i \in 1..Len(rows) |->
        [c \in {"Date", "Close", "Pct_Change"} |-> rows[i][c]]]

(***************************************************************************)
(* The script run.  out holds, per file reached, what the page shows for   *)
(* it: the subheader's name, the error, the warning, the table, the        *)
(* metrics and the charted series.                                         *)
(***************************************************************************)
Section(file, res) ==
    [name |-> file.name, error |-> res.error, warning |-> FALSE,
     reported |-> FALSE, table |-> <<>>, chart |-> <<>>, metrics |-> NoMetrics]

\* line 74: event_ts = pd.Timestamp(event_date_input)
event_ts == Timestamp(event_date_input.ord)

\* the for loop's next position
Advance(i) == IF i < Len(uploaded_files) THEN "analyze" ELSE "done"

\* line 58, uploaded_files not empty: enter the loop
Begin ==
    /\ pc = "start"
    /\ uploaded_files # <<>>
    /\ pc' = "analyze"
    /\ idx' = 1
    /\ UNCHANGED <<uploaded_files, event_date_input, df, valid_event,
                   before, after, before_avg, after_avg, out>>

\* line 135: nothing uploaded
NoFiles ==
    /\ pc = "start"
    /\ uploaded_files = <<>>
    /\ pc' = "done"
    /\ UNCHANGED <<uploaded_files, event_date_input, idx, df, valid_event,
                   before, after, before_avg, after_avg, out>>

\* lines 60-65: analyze_single_file returns a frame
AnalyzeOk ==
    /\ pc = "analyze"
    /\ \E res \in analyze_single_file(uploaded_files[idx]) :
          /\ ~res.none
          /\ df' = res
          /\ out' = Append(out, Section(uploaded_files[idx], res))
    /\ pc' = "event"
    /\ UNCHANGED <<uploaded_files, event_date_input, idx, valid_event,
                   before, after, before_avg, after_avg>>

\* lines 60-65: analyze_single_file shows the error and returns None
AnalyzeError ==
    /\ pc = "analyze"
    /\ \E res \in analyze_single_file(uploaded_files[idx]) :
          /\ res.none
          /\ df' = res
          /\ out' = Append(out, Section(uploaded_files[idx], res))
    /\ pc' = Advance(idx)
    /\ idx' = idx + 1
    /\ UNCHANGED <<uploaded_files, event_date_input, valid_event,
                   before, after, before_avg, after_avg>>

\* lines 70-73: no event date selected
EventAbsent ==
    /\ pc = "event"
    /\ event_date_input.none
    /\ before_avg' = None
    /\ after_avg' = None
    /\ valid_event' = FALSE
    /\ pc' = "display"
    /\ UNCHANGED <<uploaded_files, event_date_input, idx, df, before, after,
                   out>>

\* lines 70-78: the event date is out of the frame's range
EventOutOfRange ==
    /\ pc = "event"
    /\ ~event_date_input.none
    /\ out_of_range(event_ts, df.rows)
    /\ before_avg' = None
    /\ after_avg' = None
    /\ valid_event' = FALSE
    /\ out' = [out EXCEPT ![idx].warning = TRUE]
    /\ pc' = "display"
    /\ UNCHANGED <<uploaded_files, event_date_input, idx, df, before, after>>

\* lines 70-90: the event date passes the range check
EventInRange ==
    /\ pc = "event"
    /\ ~event_date_input.none
    /\ ~out_of_range(event_ts, df.rows)
    /\ valid_event' = TRUE
    /\ before' = before_rows(df.rows, event_ts)
    /\ after' = after_rows(df.rows, event_ts)
    /\ before_avg' = mean(before')
    /\ after_avg' = mean(after')
    /\ pc' = "display"
    /\ UNCHANGED <<uploaded_files, event_date_input, idx, df, out>>

\* lines 93-132: the table, the metrics and the charts of this file
Display ==
    /\ pc = "display"
    /\ out' = [out EXCEPT ![idx] =
                 [@ EXCEPT
                    !.reported = TRUE,
                    !.table = three_columns(tail(df.rows, 5)),
                    !.chart = three_columns(df.rows),
                    !.metrics =
                        IF valid_event
                        THEN [shown |-> TRUE,
                              before |-> format_2f(default_zero(before_avg)),
                              after |-> format_2f(default_zero(after_avg))]
                        ELSE NoMetrics]]
    /\ pc' = Advance(idx)
    /\ idx' = idx + 1
    /\ UNCHANGED <<uploaded_files, event_date_input, df, valid_event,
                   before, after, before_avg, after_avg>>

Next ==
    \/ Begin
    \/ NoFiles
    \/ AnalyzeOk
    \/ AnalyzeError
    \/ EventAbsent
    \/ EventOutOfRange
    \/ EventInRange
    \/ Display

(***************************************************************************)
(* The inputs of a run                                                     *)
(***************************************************************************)
MaxRows == 3

MaxFiles == 3

PoolSize == 8

File(name, readable, columns, rows) ==
    [name |-> name, readable |-> readable, columns |-> columns, rows |-> rows]

\* Date cells: two dates in the expected format, one ISO date
DateCells ==
    {DateText("/", 1, 5, 2024), DateText("/", 2, 1, 2024),
     DateText("-", 2024, 1, 5)}

\* Close cells: 100, 1,562.5 and a cell that is no number
CloseCells ==
    {<<"1", "0", "0">>, <<"1", ",", "5", "6", "2", ".", "5">>, <<"x">>}

RowCells == {[Date |-> t, Close |-> c] : t \in DateCells, c \in CloseCells}

\* every table of at most MaxRows rows over RowCells
SmallTables == UNION {[1..k -> RowCells] : k \in 0..MaxRows}

\* a price history: trading days 01/01/2024 .. and 01/22/2024
PoolDate(k) ==
    IF k = 1 THEN DateText("/", 1, 22, 2024) ELSE DateText("/", 1, k - 1, 2024)

PoolCloses ==
    << <<"1", "0", "0">>, <<"5", "0">>, <<"2", "0", "0">>, <<"1", "2", "5">>,
       <<"8", "0">>, <<"4", "0">>, <<"2", "5", "0">>, <<"1", "6", "0">> >>

PoolClose(k) == PoolCloses[((k - 1) % Len(PoolCloses)) + 1]

\* the rows of the days in S, the latest pool index first
RECURSIVE PoolRows(_)
PoolRows(S) ==
    IF S = {} THEN <<>>
    ELSE LET k == CHOOSE k \in S : \A j \in S : j <= k
         IN  <<[Date |-> PoolDate(k), Close |-> PoolClose(k)]>>
             \o PoolRows(S \ {k})

HistoryTables == {PoolRows(S) : S \in SUBSET (1..PoolSize)}

\* the kinds of file of a batch: unreadable, no Date column, no Close
\* column, a good file with a Volume column, a file of ISO dates only
FileKinds ==
    {File(0, FALSE, {}, <<>>),
     File(0, TRUE, {"Close"}, <<[Close |-> <<"1", "0", "0">>]>>),
     File(0, TRUE, {"Date", "Volume"},
          <<[Date |-> DateText("/", 1, 5, 2024),
             Volume |-> <<"1", ",", "0", "0", "0">>]>>),
     File(0, TRUE, {"Date", "Close", "Volume"},
          <<[Date |-> DateText("/", 1, 5, 2024), Close |-> <<"5", "0">>,
             Volume |-> <<"1", ",", "0", "0", "0">>],
            [Date |-> DateText("/", 1, 3, 2024), Close |-> <<"4", "0">>,
             Volume |-> <<"x">>]>>),
     File(0, TRUE, {"Date", "Close"},
          <<[Date |-> DateText("-", 2024, 1, 5), Close |-> <<"5", "0">>]>>)}

\* the files are named by their place in the upload
Batches ==
    UNION {{[i \in 1..k |-> [b[i] EXCEPT !.name = i]] : b \in [1..k -> FileKinds]} :
           k \in 0..MaxFiles}

Uploads ==
    Batches
    \cup {<<File(1, TRUE, {"Date", "Close"}, t)>> :
             t \in SmallTables \cup HistoryTables}

NoDate == [none |-> TRUE, ord |-> 0]

Date(m, d, y) == [none |-> FALSE, ord |-> Ordinal(m, d, y)]

EventDateInputs ==
    {NoDate, Date(12, 31, 2023), Date(1, 1, 2024), Date(1, 6, 2024),
     Date(1, 7, 2024), Date(1, 17, 2024), Date(1, 22, 2024),
     Date(1, 23, 2024)}

Unbound == [none |-> TRUE, rows |-> <<>>,
            error |-> [shown |-> FALSE, file |-> 0, reason |-> ""]]

Init ==
    /\ uploaded_files \in Uploads
    /\ event_date_input \in EventDateInputs
    /\ pc = "start"
    /\ idx = 0
    /\ df = Unbound
    /\ valid_event = FALSE
    /\ before = <<>>
    /\ after = <<>>
    /\ before_avg = None
    /\ after_avg = None
    /\ out = <<>>

Spec == Init /\ [][Next]_vars

(***************************************************************************)
(* Properties                                                              *)
(***************************************************************************)
\* the file cannot be read as a table, or lacks the Date or Close column
Fails(file) ==
    ~file.readable \/ "Date" \notin file.columns \/ "Close" \notin file.columns

\* the section of file i is complete: the loop has moved past it
Complete(i) == i < idx \/ pc = "done"

\* C1 (batch isolation): every file the loop has passed has its own section;
\* a failing file's section shows an error naming that file and no series,
\* every other file's section shows the series cleaned from that file, and
\* at the end every file of the batch has a section.
C1_BatchIsolation ==
    /\ pc = "done" => Len(out) = Len(uploaded_files)
    /\ \A i \in 1..Len(out) :
          /\ out[i].name = uploaded_files[i].name
          /\ Fails(uploaded_files[i]) =>
                /\ out[i].error.shown
                /\ out[i].error.file = uploaded_files[i].name
                /\ ~out[i].reported
                /\ out[i].chart = <<>>
          /\ (~Fails(uploaded_files[i]) /\ Complete(i)) =>
                /\ ~out[i].error.shown
                /\ out[i].reported
                /\ out[i].chart \in
                      {three_columns(r.rows) :
                          r \in analyze_single_file(uploaded_files[i])}

\* a batch of three whose middle file fails and whose others are reported
C1_Witness ==
    /\ pc = "done"
    /\ Len(uploaded_files) = 3
    /\ Fails(uploaded_files[2])
    /\ out[2].error.shown
    /\ out[1].reported /\ out[1].chart # <<>>
    /\ out[3].reported /\ out[3].chart # <<>>

\* C2 (range check): once the event block has run on a non-empty frame,
\* valid_event holds exactly when a date is given and lies between the
\* first and the last date, both included; otherwise both averages are None.
C2_RangeCheck ==
    (pc = "display" /\ df.rows # <<>>) =>
        /\ valid_event <=>
              /\ ~event_date_input.none
              /\ df.rows[1]["Date"].ord <= event_date_input.ord
              /\ event_date_input.ord <= df.rows[Len(df.rows)]["Date"].ord
        /\ ~valid_event => (before_avg = None /\ after_avg = None)

\* the event date is the last date of a frame of several days
C2_Witness ==
    /\ pc = "display"
    /\ Len(df.rows) >= 2
    /\ ~event_date_input.none
    /\ df.rows[Len(df.rows)]["Date"].ord = event_date_input.ord
    /\ df.rows[1]["Date"].ord < event_date_input.ord
    /\ valid_event

\* C3 (window size bound): for an in-range event, before and after hold at
\* most 5 rows, before's dates are earlier than the event date and after's
\* are later, so a row on the event date is in neither.
C3_WindowBound ==
    (pc = "display" /\ valid_event) =>
        /\ Len(before) <= 5
        /\ Len(after) <= 5
        /\ \A i \in 1..Len(before) :
              before[i]["Date"].ord < event_date_input.ord
        /\ \A i \in 1..Len(after) :
              after[i]["Date"].ord > event_date_input.ord

\* six rows precede the event within the window, one is on the event date
C3_Witness ==
    /\ pc = "display"
    /\ valid_event
    /\ Len(before) = 5
    /\ Cardinality({i \in 1..Len(df.rows) :
                      df.rows[i]["Date"].ord < event_date_input.ord}) > 5
    /\ \E i \in 1..Len(df.rows) :
          df.rows[i]["Date"].ord = event_date_input.ord
    /\ after # <<>>

\* C4 (sort invariant): the rows of every frame are in ascending date order.
C4_SortInvariant ==
    ~df.none =>
        \A i \in 1..(Len(df.rows) - 1) :
            df.rows[i]["Date"].ord <= df.rows[i + 1]["Date"].ord

\* the input row i, if it survives cleaning
Survives(row) ==
    /\ ~to_datetime(row["Date"]).nat
    /\ to_numeric(str_replace(row["Close"])).kind # "nan"

\* a frame of three rows or more from a file whose rows are out of order
C4_Witness ==
    /\ pc = "event"
    /\ Len(df.rows) >= 3
    /\ LET rows == uploaded_files[idx].rows
       IN  \E i, j \in 1..Len(rows) :
              /\ i < j
              /\ Survives(rows[i]) /\ Survives(rows[j])
              /\ to_datetime(rows[i]["Date"]).ord
                    > to_datetime(rows[j]["Date"]).ord

\* C5 as stated (unique dates): no two rows of a frame share a date.
C5_UniqueDates ==
    ~df.none =>
        \A i, j \in 1..Len(df.rows) :
            i # j => df.rows[i]["Date"] # df.rows[j]["Date"]

\* C5 as amended: cleaning neither merges nor adds rows of a date: for each
\* date the frame has as many rows as the file has surviving rows of it, so
\* two rows share a date exactly when two surviving input rows do.
C5_DuplicatesKept ==
    (pc = "event") =>
        LET rows == uploaded_files[idx].rows
        IN  \A t \in {to_datetime(rows[i]["Date"]) : i \in 1..Len(rows)}
                  \cup {df.rows[i]["Date"] : i \in 1..Len(df.rows)} :
               Cardinality({i \in 1..Len(df.rows) : df.rows[i]["Date"] = t})
               = Cardinality({i \in 1..Len(rows) :
                                /\ Survives(rows[i])
                                /\ to_datetime(rows[i]["Date"]) = t})

\* a frame with two rows of one date and different closes
C5_Witness ==
    /\ pc = "event"
    /\ \E i, j \in 1..Len(df.rows) :
          /\ i # j
          /\ df.rows[i]["Date"] = df.rows[j]["Date"]
          /\ df.rows[i]["Close"] # df.rows[j]["Close"]

\* C6 (empty series guard): the event block never ends with valid_event
\* set for an empty frame.
C6_EmptySeriesGuard ==
    (pc = "display" /\ df.rows = <<>>) => ~valid_event

\* The writer of C7's round trip: a frame written as a file in the format
\* the cleaning reads, dates as "%m/%d/%Y" and numbers as decimal numerals.
strftime_mdY(ts) ==
    LET y == CHOOSE y \in (ts.ord \div 366)..((ts.ord \div 365) + 1) :
                DaysBeforeYear(y) < ts.ord /\ ts.ord <= DaysBeforeYear(y + 1)
        r == ts.ord - DaysBeforeYear(y)
        m == CHOOSE m \in 1..12 :
                /\ DaysBeforeMonth(m, y) < r
                /\ r <= DaysBeforeMonth(m, y) + DaysInMonth(m, y)
    IN  DateText("/", m, r - DaysBeforeMonth(m, y), y)

RECURSIVE IntDigits(_)
IntDigits(v) ==
    IF v < 10 THEN <<Digits[v + 1]>>
    ELSE IntDigits(v \div 10) \o <<Digits[(v % 10) + 1]>>

RECURSIVE ZeroPad(_, _)
ZeroPad(s, n) == IF Len(s) >= n THEN s ELSE ZeroPad(<<"0">> \o s, n)

\* the decimal numeral of a float; an empty cell for NaN
write_numeric(x) ==
    IF x.kind # "num" THEN <<>>
    ELSE LET k  == CHOOSE k \in 0..9 :
                      /\ Pow10(k) % x.d = 0
                      /\ \A j \in 0..(k - 1) : Pow10(j) % x.d # 0
             ds == ZeroPad(IntDigits((Abs(x.n) * Pow10(k)) \div x.d), k + 1)
             ip == SubSeq(ds, 1, Len(ds) - k)
             fp == SubSeq(ds, Len(ds) - k + 1, Len(ds))
         IN  (IF x.n < 0 THEN <<"-">> ELSE <<>>)
             \o ip \o (IF k = 0 THEN <<>> ELSE <<".">> \o fp)

\* the frame's rows as a file: Date and the numeric columns as texts; the
\* Pct_Change column is written but never read back as a number
WriteBack(rows) ==
    File(1, TRUE,
         IF rows = <<>> THEN {"Date", "Close", "Pct_Change"}
         ELSE DOMAIN rows[1],
         [i \in 1..Len(rows) |->
            [c \in DOMAIN rows[i] |->
                IF c = "Date" THEN strftime_mdY(rows[i][c])
                ELSE IF c \in cols_to_fix THEN write_numeric(rows[i][c])
                ELSE <<>>]])

DistinctDates(rows) ==
    \A i, j \in 1..Len(rows) : i # j => rows[i]["Date"] # rows[j]["Date"]

\* C7 as stated (idempotence of clean): cleaning the written-back frame
\* gives the same rows in the same order with the same Close and Pct_Change.
C7_Idempotence ==
    (pc = "event") =>
        \A r \in analyze_single_file(WriteBack(df.rows)) :
            /\ ~r.none
            /\ three_columns(r.rows) = three_columns(df.rows)

\* C7 as amended: the same, for every frame in which no two rows share a
\* date.
C7_IdempotenceDistinct ==
    (pc = "event" /\ DistinctDates(df.rows)) =>
        \A r \in analyze_single_file(WriteBack(df.rows)) :
            /\ ~r.none
            /\ three_columns(r.rows) = three_columns(df.rows)

\* a frame of two dates, one close written with a comma and a decimal
\* point, from a file that also had a dropped row
C7_Witness ==
    /\ pc = "event"
    /\ Len(df.rows) = 2
    /\ DistinctDates(df.rows)
    /\ \E i \in 1..2 : df.rows[i]["Close"] = Num(3125, 2)
    /\ Len(uploaded_files[idx].rows) = 3

\* the positions of the rows the claim names: dated in [lo, hi], at most
\* TailHead of them, the latest ones (latest = TRUE) or the earliest
Named(rows, lo, hi, latest) ==
    LET inside == {i \in 1..Len(rows) :
                     lo <= rows[i]["Date"].ord /\ rows[i]["Date"].ord <= hi}
    IN  {i \in inside :
            Cardinality({j \in inside : IF latest THEN j > i ELSE j < i})
               < TailHead}

RECURSIVE SumAt(_, _)
SumAt(rows, S) ==
    IF S = {} THEN Num(0, 1)
    ELSE LET i == CHOOSE i \in S : TRUE
         IN  FAdd(rows[i]["Pct_Change"], SumAt(rows, S \ {i}))

\* avg is the mean of the defined Pct_Change of the rows at S, NaN if none
IsMeanOf(avg, rows, S) ==
    LET D == {i \in S : rows[i]["Pct_Change"].kind # "nan"}
    IN  IF D = {} THEN avg = NaN
        ELSE /\ IsNum(avg)
             /\ FMul(avg, Num(Cardinality(D), 1)) = SumAt(rows, D)

\* C8 (contributing rows): for an in-range event, before_avg is the mean of
\* the defined Pct_Change of the up-to-5 latest rows dated in
\* [event - 15, event) and after_avg that of the up-to-5 earliest rows dated
\* in (event, event + 15]; with no defined value the average is NaN.
C8_ContributingRows ==
    (pc = "display" /\ valid_event) =>
        LET e == event_date_input.ord
        IN  /\ IsMeanOf(before_avg, df.rows,
                        Named(df.rows, e - 15, e - 1, TRUE))
            /\ IsMeanOf(after_avg, df.rows,
                        Named(df.rows, e + 1, e + 15, FALSE))

\* six rows in the 15 days before the event and one older than that, and
\* a row after the event
C8_Witness ==
    /\ pc = "display"
    /\ valid_event
    /\ LET e == event_date_input.ord
       IN  /\ Cardinality({i \in 1..Len(df.rows) :
                             /\ e - 15 <= df.rows[i]["Date"].ord
                             /\ df.rows[i]["Date"].ord < e}) > 5
           /\ \E i \in 1..Len(df.rows) : df.rows[i]["Date"].ord < e - 15
    /\ IsNum(before_avg)
    /\ IsNum(after_avg)

\* C9 (return correctness): in every frame the first row's Pct_Change is
\* NaN and every later row's is (close_i - close_{i-1}) / close_{i-1} * 100
\* over the row before it in the frame.
C9_ReturnCorrectness ==
    ~df.none =>
        \A i \in 1..Len(df.rows) :
            IF i = 1 THEN df.rows[i]["Pct_Change"] = NaN
            ELSE LET c == df.rows[i]["Close"]
                     p == df.rows[i - 1]["Close"]
                 IN  /\ IsNum(df.rows[i]["Pct_Change"])
                     /\ FMul(df.rows[i]["Pct_Change"], p)
                        = FMul(FAdd(c, FMul(Num(-1, 1), p)), Num(100, 1))

\* two rows adjacent in the frame that a dropped row separates in the file
C9_Witness ==
    /\ pc = "event"
    /\ Len(df.rows) = 2
    /\ df.rows[1]["Close"] # df.rows[2]["Close"]
    /\ LET rows == uploaded_files[idx].rows
       IN  /\ Len(rows) = 3
           /\ ~Survives(rows[2])
           /\ to_datetime(rows[1]["Date"]).ord > to_datetime(rows[3]["Date"]).ord

\* the set of before (after) has no row with a defined Pct_Change
NoDefined(rows) == \A i \in 1..Len(rows) : rows[i]["Pct_Change"].kind = "nan"

\* C10 (default display): when the metrics of a file with a non-empty frame
\* have been shown and the before (after) set has no defined Pct_Change, the
\* metric shows 0.00%.
C10_DefaultDisplay ==
    (/\ pc \in {"analyze", "done"}
     /\ idx >= 2
     /\ out[idx - 1].metrics.shown
     /\ df.rows # <<>>) =>
        /\ NoDefined(before) =>
              out[idx - 1].metrics.before = format_2f(Num(0, 1))
        /\ NoDefined(after) =>
              out[idx - 1].metrics.after = format_2f(Num(0, 1))

====
